---- MODULE Spec2Model ----
(***************************************************************************)
(* Model of the sparse-matrix synchronisation of the Dynawo solvers:        *)
(*   SolverCommon::copySparseToKINSOL                  (DYNSolverCommon.cpp) *)
(*   SolverCommon::propagateMatrixStructureChangeToKINSOL                    *)
(*                                                                           *)
(* Arrays are sequences; the C index i is the TLA+ index i+1.  The backend   *)
(* matrix JJ keeps the SUNDIALS field NNZ (the reported nonzero count) and   *)
(* its three arrays; the allocated capacity of an array is its length.       *)
(***************************************************************************)
EXTENDS Integers, Sequences, FiniteSets, TLC

(***************************************************************************)
(* Bounds of the model.                                                      *)
(***************************************************************************)
\* row/column dimension of the matrices (the parameter `size`)
size == 32
\* local matrices have 0..MaxSmallNnz nonzeros, or BigLo..BigLo+BigSpan
MaxSmallNnz == 2
BigSpan == 1
\* row-index patterns 0..MaxVariant (0 is the base pattern)
MaxVariant == 1
\* value families 0..MaxVal
MaxVal == 1
\* the backend matrix is created with 0..MaxInitNNZ allocated nonzeros
MaxInitNNZ == 2
\* the allocator has MaxAddr addresses for snapshot buffers
MaxAddr == 2
\* the profiler logs at most MaxLogs operations between two resets
MaxLogs == 3
\* an operation takes 0..MaxTime ticks
MaxTime == 1
\* a structure change is logged with an nnz difference of 0..MaxNnzDiff and a
\* change ratio of 0..MaxNnzDiff hundredths
MaxNnzDiff == 1

(***************************************************************************)
(* Program constants (DYNSolverCommon.cpp:37-38).  The tolerance 0.01 is     *)
(* kept as the fraction 1/100: for int operands d and c > 0 the double test  *)
(* (double)d / c >= 0.01 agrees with the exact test 100*d >= c, since the    *)
(* division is correctly rounded and |d/c - 1/100| is either 0 or at least   *)
(* 1/(100*2^31), far above the spacing of doubles near 0.01.                 *)
(***************************************************************************)
STRUCTURE_CHANGE_TOLERANCE_NUM == 1
STRUCTURE_CHANGE_TOLERANCE_DEN == 100
MIN_NNZ_CHANGE == 10
\* second argument of SUNLinSol_KLUReInit: partial (symbolic) reinitialisation
KLU_REINIT_MODE == 2

\* smallest nonzero count at which a size change of 1 is below the tolerance
BigLo == (STRUCTURE_CHANGE_TOLERANCE_DEN \div STRUCTURE_CHANGE_TOLERANCE_NUM) + 1

Min(a, b) == IF a < b THEN a ELSE b

(***************************************************************************)
(* The local matrices (SparseMatrix smj) handed to the synchroniser:         *)
(* compressed-column matrices filled column by column.  Pattern k > 0 swaps  *)
(* the row indices at C positions k-1 and k of the base pattern; value       *)
(* family v changes the value of the first nonzero.                          *)
(***************************************************************************)
NnzInputs == (0 .. MaxSmallNnz) \cup (BigLo .. BigLo + BigSpan)

RowAt(k, i0) ==
    IF k > 0 /\ i0 = k - 1 THEN k % size
    ELSE IF k > 0 /\ i0 = k THEN (k - 1) % size
    ELSE i0 % size

Matrix(n, k, v) ==
    [ Ap |-> [c \in 1 .. size + 1 |-> Min((c - 1) * size, n)],
      Ai |-> [i \in 1 .. n |-> RowAt(k, i - 1)],
      Ax |-> [i \in 1 .. n |-> IF i = 1 THEN 1 + v ELSE 1 + (i % 2)] ]

Inputs == { Matrix(n, k, v) : n \in NnzInputs, k \in 0 .. MaxVariant, v \in 0 .. MaxVal }

\* smallest nonzero count at which a size change of MIN_NNZ_CHANGE entries is
\* below the relative tolerance
HugeLo ==
    ((MIN_NNZ_CHANGE * STRUCTURE_CHANGE_TOLERANCE_DEN) \div STRUCTURE_CHANGE_TOLERANCE_NUM) + 1

\* local matrices with few nonzeros or about HugeLo of them, of one value
\* family
LargeNnzInputs == (1 .. MaxSmallNnz) \cup {HugeLo - MIN_NNZ_CHANGE, HugeLo}

LargeInputs == { Matrix(n, k, 0) : n \in LargeNnzInputs, k \in 0 .. MaxVariant }

\* SparseMatrix::nbElem()
nbElem(m) == Len(m.Ai)

(***************************************************************************)
(* State.                                                                    *)
(*   JJ                 the backend matrix: NNZ, indexptrs, indexvals, data  *)
(*   lastRowVals        the row-index snapshot: NULL or an owned buffer      *)
(*   smj                the local matrix of the last call                    *)
(*   matrixStructChange the verdict of the last call                         *)
(*   op                 the last operation: "init", "propagate" (a call that *)
(*                      returned) or "crashed" (a call that wrote through a  *)
(*                      null pointer and ended the process)                  *)
(*   reinitCalls        the SUNLinSol_KLUReInit calls issued by the last call*)
(*   oob                whether the last call read or wrote past a buffer    *)
(*   nondecreasing      the calls so far had nondecreasing nonzero counts    *)
(*   pre                what the last call found at its entry: currentNNZ,   *)
(*                      the value of SM_NNZ_S(JJ), and lastRowVals           *)
(*   events             what the last call did, in program order             *)
(*   heap               the snapshot buffers: ptr, the address *lastRowVals  *)
(*                      holds (0 is NULL); live, the addresses allocated and *)
(*                      not freed; whether an address was freed twice or     *)
(*                      read after its free                                  *)
(*   fault              what went wrong in the last call: alloc, a malloc    *)
(*                      returned NULL; reinit, SUNLinSol_KLUReInit returned  *)
(*                      a failure flag; nullAccess, a copy went through a    *)
(*                      null pointer                                         *)
(*   profiler           the SolverProfiler object: five counters, five sums  *)
(*   since              the log operations called since the last reset, by   *)
(*                      kind; unnecessary counts the logStructureChange      *)
(*                      calls made with wasNecessary = false                 *)
(*   printed            the divisions the last operation carried out, in     *)
(*                      program order, if it was printStatistics: which      *)
(*                      quantity, and the counter it divided by              *)
(***************************************************************************)
VARIABLES JJ, lastRowVals, smj, matrixStructChange, op, reinitCalls, oob,
          nondecreasing, pre, events, heap, fault, profiler, since, printed

solverVars == <<JJ, lastRowVals, smj, matrixStructChange, op, reinitCalls, oob,
                nondecreasing, pre, events, heap, fault>>

profilerVars == <<profiler, since>>

vars == <<JJ, lastRowVals, smj, matrixStructChange, op, reinitCalls, oob,
          nondecreasing, pre, events, heap, fault, profiler, since, printed>>

\* allocated length of the backend's row-index and value arrays
Capacity(M) == Len(M.indexvals)

NULL == [isNull |-> TRUE, buf |-> <<>>]

Buffer(b) == [isNull |-> FALSE, buf |-> b]

\* malloc(n * sizeof(T)): n entries of indeterminate content g
Malloc(n, g) == [i \in 1 .. n |-> g]

\* the contents a fresh allocation may hold
Indeterminate == {0, 1}

(***************************************************************************)
(* copySparseToKINSOL, DYNSolverCommon.cpp:33-94.                            *)
(***************************************************************************)
\* mutant: the arrays are never reallocated
NeedsGrowth_Never(curNNZ, newNNZ) == FALSE

\* mutant: the growth test also fires at equal size
NeedsGrowth_OrEqual(curNNZ, newNNZ) == curNNZ <= newNNZ

\* line 44: if (currentNNZ < newNNZ)
NeedsGrowth(curNNZ, newNNZ) == curNNZ < newNNZ

\* lines 45-51: the three arrays are freed and allocated anew
Grow(M, newNNZ, g) ==
    [ NNZ       |-> newNNZ,
      indexptrs |-> Malloc(size + 1, g),
      indexvals |-> Malloc(newNNZ, g),
      data      |-> Malloc(newNNZ, g) ]

\* the three arrays of the backend matrix
ArrayNames == {"indexptrs", "indexvals", "data"}

\* lines 49-51 when malloc returns NULL for the arrays in `failed`: the
\* pointer is stored untested, the array has no entry
StoreNull(M, failed) ==
    IF failed = {}
    THEN M
    ELSE [ NNZ       |-> M.NNZ,
           indexptrs |-> IF "indexptrs" \in failed THEN <<>> ELSE M.indexptrs,
           indexvals |-> IF "indexvals" \in failed THEN <<>> ELSE M.indexvals,
           data      |-> IF "data" \in failed THEN <<>> ELSE M.data ]

\* mutant: the reported count is not actualised outside the growth path
SetNNZ_Skipped(M, newNNZ) == M

\* line 56: SM_NNZ_S(JJ) = newNNZ
SetNNZ(M, newNNZ) == [M EXCEPT !.NNZ = newNNZ]

\* unsigned / int -> sunindextype (64-bit signed): widening, value-preserving
ToSunindex(x) == x

\* double -> realtype (double): the same type
ToRealtype(x) == x

\* mutant: the loops stop one entry early
CopyInto_OffByOne(dst, src, n) ==
    LET k == Min(n - 1, Len(src))
    IN  [i \in 1 .. Len(dst) |-> IF i <= k THEN src[i] ELSE dst[i]]

\* the loops of lines 58-64 write n entries of src into dst, from index 0;
\* an entry src does not have leaves what dst held
CopyInto(dst, src, n) ==
    LET k == Min(n, Len(src))
    IN  [i \in 1 .. Len(dst) |-> IF i <= k THEN src[i] ELSE dst[i]]

\* lines 58-60: size + 1 column pointers
CopyPtrs(M, m) ==
    [M EXCEPT !.indexptrs =
        CopyInto(M.indexptrs, [i \in 1 .. size + 1 |-> ToSunindex(m.Ap[i])], size + 1)]

\* lines 61-64: nbElem() row indices and values
CopyVals(M, m) ==
    [M EXCEPT !.indexvals =
                 CopyInto(M.indexvals, [i \in 1 .. nbElem(m) |-> ToSunindex(m.Ai[i])], nbElem(m)),
              !.data =
                 CopyInto(M.data, [i \in 1 .. nbElem(m) |-> ToRealtype(m.Ax[i])], nbElem(m))]

\* a copy loop of lines 58-64 writes past the end of an array
WritesPastEnd(M, m) ==
    \/ size + 1 > Len(M.indexptrs)
    \/ nbElem(m) > Len(M.indexvals)
    \/ nbElem(m) > Len(M.data)

Abs(x) == IF x < 0 THEN 0 - x ELSE x

\* line 69: nnzDiff = std::abs(newNNZ - curNNZ)
NnzDiff(curNNZ, newNNZ) == Abs(newNNZ - curNNZ)

\* lines 70, 73: changeRatio >= STRUCTURE_CHANGE_TOLERANCE, changeRatio being
\* nnzDiff / curNNZ, or 1.0 when curNNZ is 0
RatioSignificant(curNNZ, newNNZ) ==
    IF curNNZ > 0
    THEN NnzDiff(curNNZ, newNNZ) * STRUCTURE_CHANGE_TOLERANCE_DEN
            >= STRUCTURE_CHANGE_TOLERANCE_NUM * curNNZ
    ELSE STRUCTURE_CHANGE_TOLERANCE_DEN >= STRUCTURE_CHANGE_TOLERANCE_NUM

\* mutant: the absolute threshold is left out
SignificantChange_RatioOnly(curNNZ, newNNZ) == RatioSignificant(curNNZ, newNNZ)

\* line 73: changeRatio >= STRUCTURE_CHANGE_TOLERANCE || nnzDiff >= MIN_NNZ_CHANGE
SignificantChange(curNNZ, newNNZ) ==
    \/ RatioSignificant(curNNZ, newNNZ)
    \/ NnzDiff(curNNZ, newNNZ) >= MIN_NNZ_CHANGE

\* lines 75, 83: the number of entries memcmp compares, SM_NNZ_S(JJ)
CompareLength(M) == M.NNZ

\* mutant: no comparison at equal size
Compares_SignificantOnly(curNNZ, newNNZ) == SignificantChange(curNNZ, newNNZ)

\* lines 73, 81: whether the row indices are compared against the snapshot
Compares(curNNZ, newNNZ) ==
    SignificantChange(curNNZ, newNNZ) \/ newNNZ = curNNZ

\* memcmp(buf, vals, n entries) != 0.  A difference inside both buffers is
\* found; when all entries inside both buffers agree and n runs past the end
\* of one of them, the result depends on the memory behind it (undefined).
MemcmpDiffers(buf, vals, n) ==
    IF \E i \in 1 .. Min(n, Min(Len(buf), Len(vals))) : buf[i] # vals[i]
    THEN {TRUE}
    ELSE IF n > Len(buf) \/ n > Len(vals) THEN {TRUE, FALSE}
    ELSE {FALSE}

\* mutant: the growth path does not force the verdict
Classify_GrowthNotForced(snapshot, curNNZ, newNNZ, grown, differs) ==
    IF ~snapshot.isNull
    THEN Compares(curNNZ, newNNZ) /\ differs
    ELSE TRUE

\* mutant: an absent snapshot does not force the verdict
Classify_NullNotForced(snapshot, curNNZ, newNNZ, grown, differs) ==
    IF ~snapshot.isNull
    THEN IF Compares(curNNZ, newNNZ) THEN grown \/ differs ELSE grown
    ELSE grown

\* lines 66-91: the verdict, grown being the flag set on the growth path and
\* differs the result of the comparison
Classify(snapshot, curNNZ, newNNZ, grown, differs) ==
    IF ~snapshot.isNull
    THEN IF Compares(curNNZ, newNNZ) THEN grown \/ differs ELSE grown
    ELSE TRUE

\* the whole function: the outcomes (backend matrix, returned verdict,
\* out-of-bounds accesses) of one call on local matrix m, backend matrix M
\* and snapshot `snapshot`, g being the content of fresh allocations and
\* `failed` the arrays for which malloc returns NULL if it is called.  The
\* copy loops write size + 1 column pointers and, on the growth path, at
\* least one row index and value: a null array is written through and the
\* process ends there (nullWrite)
copySparseToKINSOL(m, M, snapshot, g, failed) ==
    LET curNNZ == M.NNZ
        newNNZ == nbElem(m)
        grown == NeedsGrowth(curNNZ, newNNZ)
        A == IF grown THEN StoreNull(Grow(M, newNNZ, g), failed) ELSE M
        J == CopyVals(CopyPtrs(SetNNZ(A, newNNZ), m), m)
        nullWrite == grown /\ failed # {} /\ WritesPastEnd(A, m)
        compared == ~nullWrite /\ ~snapshot.isNull /\ Compares(curNNZ, newNNZ)
    IN  { [ JJ  |-> J,
            ret |-> Classify(snapshot, curNNZ, newNNZ, grown, d),
            allocFailed |-> grown /\ failed # {},
            nullWrite |-> nullWrite,
            oob |-> [ read  |-> compared /\ CompareLength(J) > Len(snapshot.buf),
                      write |-> WritesPastEnd(A, m) ] ] :
          d \in IF compared
                THEN MemcmpDiffers(snapshot.buf, J.indexvals, CompareLength(J))
                ELSE {FALSE} }

(***************************************************************************)
(* propagateMatrixStructureChangeToKINSOL, DYNSolverCommon.cpp:96-110.       *)
(***************************************************************************)
\* line 101: SUNLinSol_KLUReInit(LS, JJ, SM_NNZ_S(JJ), 2)
ReInit(M) == [nnz |-> M.NNZ, mode |-> KLU_REINIT_MODE]

\* lines 102-106: the old buffer is freed, a buffer of SM_NNZ_S(JJ) entries is
\* allocated and the backend's row indices are copied into it
ReplaceSnapshot(M, g) ==
    Buffer(CopyInto(Malloc(M.NNZ, g), M.indexvals, M.NNZ))

\* lines 100-101: if (matrixStructChange) SUNLinSol_KLUReInit(...)
ReinitCalls(ret, M) == IF ret THEN <<ReInit(M)>> ELSE <<>>

\* mutant: the snapshot is replaced whatever the verdict
SnapshotAfter_Unconditional(ret, M, snapshot, g, mallocFails) ==
    ReplaceSnapshot(M, g)

\* lines 100-106: the snapshot after the call.  On a true verdict it is
\* replaced; when malloc returns NULL the pointer is stored untested
SnapshotAfter(ret, M, snapshot, g, mallocFails) ==
    IF ret
    THEN IF mallocFails THEN NULL ELSE ReplaceSnapshot(M, g)
    ELSE snapshot

\* mutant: the backend is reinitialised after the snapshot is replaced
PropagateEvents_ReinitLast(ret, hadSnapshot) ==
    IF ret
    THEN <<"copy">> \o (IF hadSnapshot THEN <<"free">> ELSE <<>>)
                   \o <<"malloc", "memcpy", "reinit">>
    ELSE <<"copy">>

\* lines 98-106 in program order: the synchroniser call, then on a true
\* verdict the reinitialisation, the free of a present snapshot, the
\* allocation of the new one and the copy into it
PropagateEvents(ret, hadSnapshot) ==
    IF ret
    THEN <<"copy", "reinit">> \o (IF hadSnapshot THEN <<"free">> ELSE <<>>)
                             \o <<"malloc", "memcpy">>
    ELSE <<"copy">>

\* the addresses the allocator hands out for snapshot buffers
Addresses == 1 .. MaxAddr

\* malloc returns the lowest address that is not allocated
LowestFree(live) ==
    CHOOSE a \in Addresses \ live : \A b \in Addresses \ live : a <= b

\* lines 66-88: the synchroniser reads the buffer *lastRowVals points to
HeapRead(h, reads) ==
    [h EXCEPT !.useAfterFree = h.useAfterFree \/ (reads /\ h.ptr # 0 /\ h.ptr \notin h.live)]

\* line 103: free(*lastRowVals)
HeapFree(h) ==
    [h EXCEPT !.live = h.live \ {h.ptr},
              !.doubleFree = h.doubleFree \/ h.ptr \notin h.live]

\* line 105: *lastRowVals = malloc(...)
HeapMalloc(h) ==
    [h EXCEPT !.ptr = LowestFree(h.live),
              !.live = h.live \cup {LowestFree(h.live)}]

\* mutant: the old snapshot buffer is not freed
HeapReplace_NoFree(h) == HeapMalloc(h)

\* lines 102-105 on the heap: free the buffer if there is one, allocate anew
HeapReplace(h) ==
    HeapMalloc(IF h.ptr # 0 THEN HeapFree(h) ELSE h)

\* line 105 when malloc returns NULL: nothing is allocated
HeapMallocFails(h) == [h EXCEPT !.ptr = 0]

\* lines 66-106 on the heap: the synchroniser reads the snapshot buffer if
\* there is one; on a true verdict the buffer is replaced
HeapAfter(h, ret, hadSnapshot, mallocFails) ==
    LET h1 == HeapRead(h, hadSnapshot)
    IN  IF ret
        THEN IF mallocFails
             THEN HeapMallocFails(IF h1.ptr # 0 THEN HeapFree(h1) ELSE h1)
             ELSE HeapReplace(h1)
        ELSE h1

\* what the environment does to one call: allocFails, the backend arrays for
\* which malloc returns NULL; snapshotFails, malloc returns NULL for a
\* snapshot buffer of at least one entry; reinitFails, SUNLinSol_KLUReInit
\* returns a failure flag
NoFault == [allocFails |-> {}, snapshotFails |-> FALSE, reinitFails |-> FALSE]

Environments ==
    [allocFails : SUBSET ArrayNames, snapshotFails : BOOLEAN, reinitFails : BOOLEAN]

\* the calls so far, m included, have nondecreasing nonzero counts
StillNondecreasing(m) ==
    nondecreasing /\ (op = "init" \/ nbElem(m) >= nbElem(smj))

(***************************************************************************)
(* SolverProfiler, DYNSolverProfiler.cpp.  The counters are ints; the sums   *)
(* are doubles, kept here in whole ticks (times), whole entries (nnz         *)
(* differences) and whole hundredths (change ratios), which doubles add      *)
(* exactly.  A quotient of two ints is kept as the fraction num / den.       *)
(***************************************************************************)
\* lines 32-43: the constructor
SolverProfiler ==
    [ symbolicFactorizations_        |-> 0,
      numericalOnlyFactorizations_   |-> 0,
      structureChangeDetections_     |-> 0,
      falsePositiveStructureChanges_ |-> 0,
      jacobianEvaluations_           |-> 0,
      totalSymbolicTime_             |-> 0,
      totalNumericalTime_            |-> 0,
      totalJacobianTime_             |-> 0,
      totalNnzDiff_                  |-> 0,
      totalChangeRatio_              |-> 0 ]

\* lines 48-59
reset(p) ==
    [ symbolicFactorizations_        |-> 0,
      numericalOnlyFactorizations_   |-> 0,
      structureChangeDetections_     |-> 0,
      falsePositiveStructureChanges_ |-> 0,
      jacobianEvaluations_           |-> 0,
      totalSymbolicTime_             |-> 0,
      totalNumericalTime_            |-> 0,
      totalJacobianTime_             |-> 0,
      totalNnzDiff_                  |-> 0,
      totalChangeRatio_              |-> 0 ]

\* lines 61-64
logSymbolicFactorization(p, elapsedTime) ==
    [p EXCEPT !.symbolicFactorizations_ = @ + 1,
              !.totalSymbolicTime_ = @ + elapsedTime]

\* lines 66-69
logNumericalFactorization(p, elapsedTime) ==
    [p EXCEPT !.numericalOnlyFactorizations_ = @ + 1,
              !.totalNumericalTime_ = @ + elapsedTime]

\* mutant: every detection counts as a false positive
logStructureChange_AlwaysFalsePositive(p, wasNecessary, nnzDiff, changeRatio) ==
    [p EXCEPT !.structureChangeDetections_ = @ + 1,
              !.totalNnzDiff_ = @ + nnzDiff,
              !.totalChangeRatio_ = @ + changeRatio,
              !.falsePositiveStructureChanges_ = @ + 1]

\* lines 71-79
logStructureChange(p, wasNecessary, nnzDiff, changeRatio) ==
    [p EXCEPT !.structureChangeDetections_ = @ + 1,
              !.totalNnzDiff_ = @ + nnzDiff,
              !.totalChangeRatio_ = @ + changeRatio,
              !.falsePositiveStructureChanges_ =
                  IF ~wasNecessary THEN @ + 1 ELSE @]

\* lines 81-84
logJacobianEvaluation(p, elapsedTime) ==
    [p EXCEPT !.jacobianEvaluations_ = @ + 1,
              !.totalJacobianTime_ = @ + elapsedTime]

\* mutant: the quotient is taken the other way round
getSymbolicToNumericalRatio_Inverted(p) ==
    IF p.symbolicFactorizations_ = 0
    THEN [num |-> 0, den |-> 1]
    ELSE [num |-> p.numericalOnlyFactorizations_,
          den |-> p.symbolicFactorizations_]

\* lines 86-91: 0.0 when there is no numerical factorization, else the
\* quotient of the two counters
getSymbolicToNumericalRatio(p) ==
    IF p.numericalOnlyFactorizations_ = 0
    THEN [num |-> 0, den |-> 1]
    ELSE [num |-> p.symbolicFactorizations_,
          den |-> p.numericalOnlyFactorizations_]

\* one division of printStatistics, if its guard holds
Division(guard, quantity, divisor) ==
    IF guard THEN <<[quantity |-> quantity, divisor |-> divisor]>> ELSE <<>>

\* lines 93-195: the divisions printStatistics carries out on profiler p, in
\* program order, each under the test the code puts in front of it
printStatistics(p) ==
    LET totalFactorizations ==
            p.symbolicFactorizations_ + p.numericalOnlyFactorizations_
    IN  Division(totalFactorizations > 0,
                 "symbolicRatio", totalFactorizations)
        \o Division(p.symbolicFactorizations_ > 0,
                    "avgSymbolicTime", p.symbolicFactorizations_)
        \o Division(p.numericalOnlyFactorizations_ > 0,
                    "avgNumericalTime", p.numericalOnlyFactorizations_)
        \o Division(p.numericalOnlyFactorizations_ # 0,
                    "ratio", p.numericalOnlyFactorizations_)
        \o Division(p.structureChangeDetections_ > 0,
                    "avoidanceRate", p.structureChangeDetections_)
        \o Division(p.structureChangeDetections_ > 0,
                    "avgNnzDiff", p.structureChangeDetections_)
        \o Division(p.structureChangeDetections_ > 0,
                    "avgChangeRatio", p.structureChangeDetections_)
        \o Division(p.jacobianEvaluations_ > 0,
                    "avgJacobianTime", p.jacobianEvaluations_)
        \o Division(p.falsePositiveStructureChanges_ > 0,
                    "savedTime", p.symbolicFactorizations_)

\* the elapsed times the callers log
Times == 0 .. MaxTime

\* the nnz differences and the change ratios (in hundredths) the callers log
NnzDiffs == 0 .. MaxNnzDiff

\* the log operations since the last reset
Logged == since.symbolic + since.numerical + since.structure + since.jacobian

(***************************************************************************)
(* The backend matrix after construction (SUNSparseMatrix): NNZ allocated    *)
(* entries, all zero; the snapshot pointer is NULL.                          *)
(***************************************************************************)
NewSparseMatrix(nnz) ==
    [ NNZ       |-> nnz,
      indexptrs |-> Malloc(size + 1, 0),
      indexvals |-> Malloc(nnz, 0),
      data      |-> Malloc(nnz, 0) ]

Init ==
    /\ JJ \in { NewSparseMatrix(n) : n \in 0 .. MaxInitNNZ }
    /\ lastRowVals = NULL
    /\ smj = Matrix(0, 0, 0)
    /\ matrixStructChange = FALSE
    /\ op = "init"
    /\ reinitCalls = <<>>
    /\ oob = [read |-> FALSE, write |-> FALSE]
    /\ nondecreasing = TRUE
    /\ pre = [currentNNZ |-> JJ.NNZ, lastRowVals |-> NULL]
    /\ events = <<>>
    /\ heap = [ptr |-> 0, live |-> {}, doubleFree |-> FALSE, useAfterFree |-> FALSE]
    /\ fault = [alloc |-> FALSE, reinit |-> FALSE, nullAccess |-> FALSE]
    /\ profiler = SolverProfiler
    /\ since = [symbolic |-> 0, numerical |-> 0, structure |-> 0,
                unnecessary |-> 0, jacobian |-> 0]
    /\ printed = <<>>

\* one call of the coordinator on local matrix m in environment env:
\* synchronise, and on a true verdict reinitialise the backend and replace
\* the snapshot.  No result of malloc or of SUNLinSol_KLUReInit is tested;
\* the memcpy of line 106 into a null snapshot buffer, like the copy loops
\* into a null array, ends the process
PropagateIn(m, env) ==
    /\ op # "crashed"
    /\ UNCHANGED <<profilerVars, printed>>
    /\ \E g \in Indeterminate :
         \E r \in copySparseToKINSOL(m, JJ, lastRowVals, g, env.allocFails) :
           IF r.nullWrite
           THEN /\ JJ' = r.JJ
                /\ oob' = r.oob
                /\ smj' = m
                /\ op' = "crashed"
                /\ events' = <<"copy">>
                /\ reinitCalls' = <<>>
                /\ pre' = [currentNNZ |-> JJ.NNZ, lastRowVals |-> lastRowVals]
                /\ fault' = [alloc |-> TRUE, reinit |-> FALSE, nullAccess |-> TRUE]
                /\ UNCHANGED <<matrixStructChange, lastRowVals, heap, nondecreasing>>
           ELSE LET snapNull == r.ret /\ env.snapshotFails /\ r.JJ.NNZ > 0
                IN  /\ JJ' = r.JJ
                    /\ matrixStructChange' = r.ret
                    /\ oob' = r.oob
                    /\ smj' = m
                    /\ op' = IF snapNull THEN "crashed" ELSE "propagate"
                    /\ nondecreasing' = StillNondecreasing(m)
                    /\ pre' = [currentNNZ |-> JJ.NNZ, lastRowVals |-> lastRowVals]
                    /\ events' = PropagateEvents(r.ret, ~lastRowVals.isNull)
                    /\ reinitCalls' = ReinitCalls(r.ret, r.JJ)
                    /\ lastRowVals' = SnapshotAfter(r.ret, r.JJ, lastRowVals, g,
                                                    snapNull)
                    /\ heap' = HeapAfter(heap, r.ret, ~lastRowVals.isNull,
                                         snapNull)
                    /\ fault' = [alloc |-> r.allocFailed \/ snapNull,
                                 reinit |-> r.ret /\ env.reinitFails,
                                 nullAccess |-> snapNull]

\* a call in which every allocation and the reinitialisation succeed
Propagate(m) == PropagateIn(m, NoFault)

\* the solver hands every new Jacobian to the coordinator
Next == \E m \in Inputs : Propagate(m)

Spec == Init /\ [][Next]_vars

\* the same solver on Jacobians with about HugeLo nonzeros
NextLarge == \E m \in LargeInputs : Propagate(m)

SpecLarge == Init /\ [][NextLarge]_vars

\* the solver on small Jacobians, in an environment where allocations and the
\* reinitialisation may fail
SmallInputs ==
    { Matrix(n, k, 0) : n \in 0 .. MaxSmallNnz, k \in 0 .. MaxVariant }

NextFaulty == \E m \in SmallInputs : \E env \in Environments : PropagateIn(m, env)

SpecFaulty == Init /\ [][NextFaulty]_vars

(***************************************************************************)
(* The operations of the profiler, called by the solver in any order.        *)
(***************************************************************************)
Reset ==
    /\ profiler' = reset(profiler)
    /\ since' = [symbolic |-> 0, numerical |-> 0, structure |-> 0,
                 unnecessary |-> 0, jacobian |-> 0]
    /\ printed' = <<>>
    /\ UNCHANGED solverVars

LogSymbolicFactorization(elapsedTime) ==
    /\ Logged < MaxLogs
    /\ profiler' = logSymbolicFactorization(profiler, elapsedTime)
    /\ since' = [since EXCEPT !.symbolic = @ + 1]
    /\ printed' = <<>>
    /\ UNCHANGED solverVars

LogNumericalFactorization(elapsedTime) ==
    /\ Logged < MaxLogs
    /\ profiler' = logNumericalFactorization(profiler, elapsedTime)
    /\ since' = [since EXCEPT !.numerical = @ + 1]
    /\ printed' = <<>>
    /\ UNCHANGED solverVars

LogStructureChange(wasNecessary, nnzDiff, changeRatio) ==
    /\ Logged < MaxLogs
    /\ profiler' = logStructureChange(profiler, wasNecessary, nnzDiff, changeRatio)
    /\ since' = [since EXCEPT !.structure = @ + 1,
                              !.unnecessary = IF wasNecessary THEN @ ELSE @ + 1]
    /\ printed' = <<>>
    /\ UNCHANGED solverVars

LogJacobianEvaluation(elapsedTime) ==
    /\ Logged < MaxLogs
    /\ profiler' = logJacobianEvaluation(profiler, elapsedTime)
    /\ since' = [since EXCEPT !.jacobian = @ + 1]
    /\ printed' = <<>>
    /\ UNCHANGED solverVars

\* the report reads the profiler and changes nothing of it
PrintStatistics ==
    /\ printed' = printStatistics(profiler)
    /\ UNCHANGED <<solverVars, profilerVars>>

NextProfiler ==
    \/ Reset
    \/ PrintStatistics
    \/ \E t \in Times : LogSymbolicFactorization(t)
    \/ \E t \in Times : LogNumericalFactorization(t)
    \/ \E w \in BOOLEAN, d \in NnzDiffs, c \in NnzDiffs : LogStructureChange(w, d, c)
    \/ \E t \in Times : LogJacobianEvaluation(t)

SpecProfiler == Init /\ [][NextProfiler]_vars

(***************************************************************************)
(* Vocabulary of the properties.  These are stated on the arrays, not with   *)
(* the operators of the model.                                               *)
(***************************************************************************)
\* some of the first n row indices of local matrix m differs from the entry
\* of snapshot buffer buf at the same position
RowIndexDiffers(buf, m, n) ==
    \E i \in 1 .. Min(n, Len(buf)) : buf[i] # m.Ai[i]

\* the size delta from cur to new is at least 10 entries or at least 1% of cur
SizeDeltaSignificant(cur, new) ==
    \/ Abs(new - cur) >= 10
    \/ 100 * Abs(new - cur) >= cur

\* a call has been made
Called == op = "propagate"

(***************************************************************************)
(* C1.  Whenever a coordinator call returns without reinitialising the       *)
(* backend (verdict false), the backend's reported nonzero count equals the  *)
(* length of the snapshot and its row indices equal the snapshot entry for   *)
(* entry.                                                                    *)
(***************************************************************************)
C1_NeverStale ==
    (Called /\ ~matrixStructChange) =>
        /\ ~lastRowVals.isNull
        /\ JJ.NNZ = Len(lastRowVals.buf)
        /\ \A i \in 1 .. JJ.NNZ : JJ.indexvals[i] = lastRowVals.buf[i]

(***************************************************************************)
(* C2.  A call with a snapshot present, a local nonzero count equal to the   *)
(* backend's reported count and a row index among the first newNnz that      *)
(* differs from the snapshot returns true.                                   *)
(***************************************************************************)
C2_NoUnderTriggerAtEqualSize ==
    [][ ( /\ ~lastRowVals.isNull
          /\ nbElem(smj') = JJ.NNZ
          /\ RowIndexDiffers(lastRowVals.buf, smj', nbElem(smj')) )
        => matrixStructChange' ]_vars

C2_Witness ==
    /\ Called
    /\ ~pre.lastRowVals.isNull
    /\ nbElem(smj) = pre.currentNNZ
    /\ RowIndexDiffers(pre.lastRowVals.buf, smj, nbElem(smj))
    /\ matrixStructChange

(***************************************************************************)
(* C3.  With a snapshot present, a call whose nonzero count differs from the *)
(* backend's by less than 10 entries and by less than 1% of the backend's    *)
(* count, and whose row indices agree with the snapshot over the overlapping *)
(* region, returns false.                                                    *)
(***************************************************************************)
C3_ToleranceSuppression ==
    [][ ( /\ ~lastRowVals.isNull
          /\ Abs(nbElem(smj') - JJ.NNZ) < 10
          /\ 100 * Abs(nbElem(smj') - JJ.NNZ) < JJ.NNZ
          /\ ~RowIndexDiffers(lastRowVals.buf, smj', nbElem(smj')) )
        => ~matrixStructChange' ]_vars

(***************************************************************************)
(* C4.  A call with an absent snapshot returns true, whatever the local      *)
(* matrix and the backend state.                                             *)
(***************************************************************************)
C4_FirstCallForcing ==
    [][ lastRowVals.isNull => matrixStructChange' ]_vars

C4_Witness ==
    /\ Called
    /\ pre.lastRowVals.isNull
    /\ nbElem(smj) = 0
    /\ pre.currentNNZ = nbElem(smj)
    /\ matrixStructChange

(***************************************************************************)
(* C5.  Once the backend's reported nonzero count equals M's and the         *)
(* snapshot equals M's row-index array, synchronising M again returns false  *)
(* and leaves count and snapshot as they are (so every later repetition      *)
(* returns false too); a coordinator call on M that reinitialised is         *)
(* followed by a false verdict when M is submitted again.                    *)
(***************************************************************************)
C5_IdempotentNoOp ==
    [][ /\ ( /\ ~lastRowVals.isNull
             /\ JJ.NNZ = nbElem(smj')
             /\ lastRowVals.buf = smj'.Ai )
           => ( /\ ~matrixStructChange'
                /\ JJ'.NNZ = JJ.NNZ
                /\ lastRowVals' = lastRowVals )
        /\ (Called /\ matrixStructChange /\ smj' = smj) => ~matrixStructChange'
      ]_vars

C5_Witness ==
    /\ Called
    /\ ~pre.lastRowVals.isNull
    /\ pre.currentNNZ = nbElem(smj)
    /\ pre.lastRowVals.buf = smj.Ai
    /\ nbElem(smj) > 0
    /\ ~matrixStructChange

(***************************************************************************)
(* C6.  With a snapshot present and a size delta of at least 10 entries or   *)
(* at least 1% of the backend's count, a row index among the first newNnz    *)
(* that differs from the snapshot makes the call return true.                *)
(***************************************************************************)
C6_SignificantDeltaDetectsDifference ==
    [][ ( /\ ~lastRowVals.isNull
          /\ SizeDeltaSignificant(JJ.NNZ, nbElem(smj'))
          /\ RowIndexDiffers(lastRowVals.buf, smj', nbElem(smj')) )
        => matrixStructChange' ]_vars

\* a shrink (no growth path) by 10 entries or more that is below 1% of the
\* backend's count: only the absolute threshold makes it significant, and
\* only the comparison can flag it
C6_Witness ==
    /\ Called
    /\ ~pre.lastRowVals.isNull
    /\ nbElem(smj) < pre.currentNNZ
    /\ pre.currentNNZ - nbElem(smj) >= 10
    /\ 100 * (pre.currentNNZ - nbElem(smj)) < pre.currentNNZ
    /\ RowIndexDiffers(pre.lastRowVals.buf, smj, nbElem(smj))
    /\ matrixStructChange

(***************************************************************************)
(* C7.  While the calls have nondecreasing nonzero counts, the allocated     *)
(* capacity of the backend's row-index and value arrays does not decrease    *)
(* from one call to the next.                                                *)
(***************************************************************************)
C7_GrowthMonotonicity ==
    [][ nondecreasing' => Capacity(JJ') >= Capacity(JJ) ]_vars

(***************************************************************************)
(* C8.  Over any sequence of calls, the allocated capacity after a call is   *)
(* never smaller than the capacity before it.                                *)
(***************************************************************************)
C8_CapacityNeverShrinks ==
    [][ Capacity(JJ') >= Capacity(JJ) ]_vars

(***************************************************************************)
(* C9.  After every call the backend's reported nonzero count equals the     *)
(* nonzero count of the local matrix of that call.                           *)
(***************************************************************************)
C9_ReportedNnzIsNewNnz ==
    Called => JJ.NNZ = nbElem(smj)

\* a shrink in place with a false verdict
C9_Witness ==
    /\ Called
    /\ nbElem(smj) < pre.currentNNZ
    /\ ~matrixStructChange
    /\ JJ.NNZ = nbElem(smj)

(***************************************************************************)
(* C10.  After every call the backend's column pointers 0..size equal the    *)
(* local matrix's, and its row indices and values 0..newNnz-1 equal the      *)
(* local matrix's, position by position.                                     *)
(***************************************************************************)
C10_CopyIsExact ==
    Called =>
        /\ Len(JJ.indexptrs) >= size + 1
        /\ Len(JJ.indexvals) >= nbElem(smj)
        /\ Len(JJ.data) >= nbElem(smj)
        /\ \A c \in 1 .. size + 1 : JJ.indexptrs[c] = smj.Ap[c]
        /\ \A i \in 1 .. nbElem(smj) :
              JJ.indexvals[i] = smj.Ai[i] /\ JJ.data[i] = smj.Ax[i]

\* a copy in place, below the capacity, with a false verdict
C10_Witness ==
    /\ Called
    /\ ~matrixStructChange
    /\ nbElem(smj) > 1
    /\ nbElem(smj) < Capacity(JJ)
    /\ \A i \in 1 .. nbElem(smj) :
          JJ.indexvals[i] = smj.Ai[i] /\ JJ.data[i] = smj.Ax[i]

\* the positions of event e in the last call
Positions(e) == { i \in 1 .. Len(events) : events[i] = e }

(***************************************************************************)
(* C11.  When the synchroniser's verdict is true, the coordinator invokes    *)
(* the backend's reinitialisation exactly once, with the updated nonzero     *)
(* count and mode 2, after the matrix copy and before the snapshot is        *)
(* replaced; at the return the snapshot is present, has exactly newNnz       *)
(* entries and equals the backend's row-index array entry for entry.         *)
(***************************************************************************)
C11_ReinitThenSnapshot ==
    (Called /\ matrixStructChange) =>
        /\ reinitCalls = <<[nnz |-> nbElem(smj), mode |-> 2]>>
        /\ Cardinality(Positions("reinit")) = 1
        /\ \A r \in Positions("reinit") :
              /\ \A c \in Positions("copy") : c < r
              /\ \A s \in Positions("free") \cup Positions("malloc")
                                            \cup Positions("memcpy") : r < s
        /\ Positions("copy") # {}
        /\ Positions("malloc") # {} /\ Positions("memcpy") # {}
        /\ ~lastRowVals.isNull
        /\ Len(lastRowVals.buf) = nbElem(smj)
        /\ Capacity(JJ) >= nbElem(smj)
        /\ \A i \in 1 .. nbElem(smj) : lastRowVals.buf[i] = JJ.indexvals[i]

\* a true verdict that replaces an earlier, different snapshot
C11_Witness ==
    /\ Called
    /\ matrixStructChange
    /\ ~pre.lastRowVals.isNull
    /\ pre.lastRowVals.buf # lastRowVals.buf
    /\ nbElem(smj) > 1
    /\ Positions("free") # {}
    /\ reinitCalls = <<[nnz |-> nbElem(smj), mode |-> 2]>>

(***************************************************************************)
(* C12.  When the verdict is false the coordinator issues no                 *)
(* reinitialisation and leaves the snapshot unchanged: the same buffer, the  *)
(* same length, the same contents; a reinitialisation is issued only when    *)
(* the verdict is true.                                                      *)
(***************************************************************************)
C12_FalseVerdictFrame ==
    [][ /\ ~matrixStructChange' =>
              /\ reinitCalls' = <<>>
              /\ Positions("reinit")' = {}
              /\ Positions("free")' = {} /\ Positions("malloc")' = {}
              /\ Positions("memcpy")' = {}
              /\ heap'.ptr = heap.ptr /\ heap'.live = heap.live
              /\ lastRowVals' = lastRowVals
        /\ (reinitCalls' # <<>> \/ Positions("reinit")' # {})
              => matrixStructChange' ]_vars

\* a false verdict on a call whose matrix differs from the one before
C12_Witness ==
    /\ Called
    /\ ~matrixStructChange
    /\ reinitCalls = <<>>
    /\ lastRowVals = pre.lastRowVals
    /\ nbElem(smj) # Len(lastRowVals.buf)

(***************************************************************************)
(* C13.  If an allocation fails, of the backend's three arrays on the growth *)
(* path or of the new snapshot buffer, the operation ends in a reported      *)
(* error state, copies nothing into the unallocated buffer and does not      *)
(* return normally.                                                          *)
(***************************************************************************)
C13_AllocationFailureReported ==
    fault.alloc => (op = "error" /\ ~fault.nullAccess)

(***************************************************************************)
(* C14.  If the backend's reinitialisation signals a failure, the            *)
(* coordinator surfaces it to its caller as an error outcome, and does not   *)
(* retry.                                                                    *)
(***************************************************************************)
C14_ReinitFailureSurfaced ==
    fault.reinit => (op = "error" /\ Len(reinitCalls) = 1)

(***************************************************************************)
(* C15.  After any sequence of coordinator calls at most one snapshot buffer *)
(* is allocated and not freed, it is the one the snapshot pointer holds,     *)
(* every replaced buffer has been freed exactly once, and no freed buffer    *)
(* has been read.                                                            *)
(***************************************************************************)
C15_SnapshotOwnership ==
    /\ Cardinality(heap.live) <= 1
    /\ heap.live = (IF lastRowVals.isNull THEN {} ELSE {heap.ptr})
    /\ lastRowVals.isNull <=> heap.ptr = 0
    /\ ~heap.doubleFree
    /\ ~heap.useAfterFree
    /\ Cardinality(Positions("free")) =
          (IF Called /\ matrixStructChange /\ ~pre.lastRowVals.isNull THEN 1 ELSE 0)

\* a snapshot has been replaced by a longer one
C15_Witness ==
    /\ Called
    /\ matrixStructChange
    /\ ~pre.lastRowVals.isNull
    /\ Len(lastRowVals.buf) > Len(pre.lastRowVals.buf)
    /\ Positions("free") # {}
    /\ heap.live = {heap.ptr}

(***************************************************************************)
(* C16.  After any sequence of log operations and resets,                    *)
(* getSymbolicToNumericalRatio() is the number of logSymbolicFactorization   *)
(* calls since the last reset divided by the number of                       *)
(* logNumericalFactorization calls since the last reset, and 0 when the      *)
(* latter is 0; it is 2 after two symbolic and one numerical log.            *)
(***************************************************************************)
C16_RatioOfCounts ==
    LET r == getSymbolicToNumericalRatio(profiler)
    IN  /\ r.den > 0
        /\ IF since.numerical = 0
           THEN r.num = 0
           ELSE r.num * since.numerical = since.symbolic * r.den
        /\ (since.symbolic = 2 /\ since.numerical = 1) => r.num = 2 * r.den

\* two symbolic factorizations and one numerical factorization since the
\* last reset: the ratio is 2
C16_Witness ==
    /\ since.symbolic = 2
    /\ since.numerical = 1
    /\ getSymbolicToNumericalRatio(profiler).num =
          2 * getSymbolicToNumericalRatio(profiler).den

(***************************************************************************)
(* C17.  After every profiler operation the detection counter is the number  *)
(* of logStructureChange calls since the last reset, the false-positive      *)
(* counter is the number of those made with wasNecessary = false, and        *)
(* 0 <= falsePositiveCount <= detectionCount; logStructureChange changes no  *)
(* factorization or Jacobian counter.                                        *)
(***************************************************************************)
C17_DetectionCounters ==
    [][ /\ profiler'.structureChangeDetections_ = since'.structure
        /\ profiler'.falsePositiveStructureChanges_ = since'.unnecessary
        /\ 0 <= profiler'.falsePositiveStructureChanges_
        /\ profiler'.falsePositiveStructureChanges_
              <= profiler'.structureChangeDetections_
        /\ since'.structure = since.structure + 1 =>
              /\ profiler'.symbolicFactorizations_
                    = profiler.symbolicFactorizations_
              /\ profiler'.numericalOnlyFactorizations_
                    = profiler.numericalOnlyFactorizations_
              /\ profiler'.jacobianEvaluations_ = profiler.jacobianEvaluations_
      ]_profilerVars

\* structure changes logged with both values of wasNecessary, among other
\* operations
C17_Witness ==
    /\ profiler.structureChangeDetections_ = 2
    /\ profiler.falsePositiveStructureChanges_ = 1
    /\ profiler.symbolicFactorizations_ = 1

C19_ComparisonInBounds ==
    Called => ~oob.read

(***************************************************************************)
(* C20.  After every call the allocated capacity of the backend's row-index  *)
(* and value arrays is at least the reported nonzero count, and every entry  *)
(* the copy loops wrote lies inside the allocated capacity.                  *)
(***************************************************************************)
C20_CapacityCoversCount ==
    /\ Len(JJ.indexvals) >= JJ.NNZ
    /\ Len(JJ.data) >= JJ.NNZ
    /\ Len(JJ.indexptrs) >= size + 1
    /\ ~oob.write

\* a call that grew the arrays to more than one entry
C20_Witness ==
    /\ Called
    /\ nbElem(smj) > pre.currentNNZ
    /\ nbElem(smj) > 1
    /\ Len(JJ.indexvals) = nbElem(smj)
    /\ ~oob.write

(***************************************************************************)
(* C21.  In every profiler state reachable by log operations and resets,     *)
(* printStatistics computes each average and the estimated time saved only   *)
(* with a nonzero divisor count; in particular, when the false-positive      *)
(* counter is positive the symbolic factorization count it divides by is     *)
(* positive.                                                                 *)
(***************************************************************************)
C21_NonzeroDivisors ==
    \A i \in 1 .. Len(printed) : printed[i].divisor > 0

====
